---- MODULE Spec2Model ----
(***************************************************************************)
(* Model of pipeline.py of the github-grab seesaw pipeline.                *)
(*                                                                         *)
(* Spec     : the upload stage, LimitConcurrent(ChooseTargetAndUpload()),  *)
(*            run by the single-threaded tornado event loop.  A handler    *)
(*            (enqueue, a timer callback, the end of a transfer process)   *)
(*            occupies the loop from its first to its last statement: the  *)
(*            variable `running' names the item whose handler is on the    *)
(*            thread, and no other handler starts while it is set.         *)
(*            LimitConcurrent and RsyncUpload are seesaw classes; what     *)
(*            they do with an item follows seesaw.task and                 *)
(*            seesaw.externalprocess.  Time passes in steps of TickLen.    *)
(* FairSpec : Spec with the fairness of the event loop.                    *)
(* SpecDict : the process-wide dictionary cache ZstdDict.                  *)
(* SpecIP   : the calls of CheckIP.process, one per item.                  *)
(* SpecPipe : MoveFiles statement by statement, followed by the upload     *)
(*            stage of Spec and SendDoneToTracker; an item whose task      *)
(*            raises has failed (SimpleTask) and goes no further.          *)
(*                                                                         *)
(* A definition named X_something next to a definition X is a variant of   *)
(* X with a plausible slip in it; the model itself uses X only.            *)
(***************************************************************************)
EXTENDS Integers, Sequences, FiniteSets, TLC

\* ---------------------------------------------------------------- bounds
NumItems == 2
NumCandidates == 2
TickLen == 5
NumDictIds == 2
NumBodies == 2
MaxNow == 2400
MaxCalls == 3
NumAddrs == 6
MaxInvocations == 13
MaxValueLen == 1

\* ------------------------------------------------------ program constants
retry_sleep == 10
\* Variant: the RsyncUpload tries twice.
max_tries_two == 1 + 1

max_tries == 1
MinThreads == 1
MaxThreadsConfig == 20
DefaultThreads == 2
dict_ttl == 1800
NumHosts == 6
\* Variant: the check is skipped nine times.
check_interval_nine == 3 * 3
check_interval == 10
HTTP_OK == 200

Items == 1..NumItems
NoItem == 0
Candidates == 1..NumCandidates
None == <<>>
Downloader == "downloader"
NoTimer == -1

VARIABLES
  concurrency,   \* realize(NumberConfigValue 'shared:rsync_threads')
  working,       \* LimitConcurrent._working
  queue,         \* LimitConcurrent._queue
  pc,            \* position of every item in the upload stage
  running,       \* the item whose handler occupies the event loop, or NoItem
  timer,         \* time left on the item's pending add_timeout, or NoTimer
  target,        \* the target handed to the item's RsyncUpload, or None
  tries,         \* item["tries"] while the item's RsyncUpload runs, else 0
  ft_item,       \* the item of the current/last call of find_target
  targets,       \* find_target: the list after random.shuffle
  pos,           \* find_target: index of the loop over targets
  resp,          \* what the probe of each listed candidate answers in this call
  probed,        \* find_target: candidates probed so far ('Trying target')
  found,         \* find_target: the value it returns, or None
  result,        \* find_target: how the call ended
  data,          \* ZstdDict.data
  created,       \* ZstdDict.created
  now,           \* time.time()
  calls,         \* number of calls of ZstdDict.get_dict so far
  at,            \* time.time() as read by the last call of get_dict
  ret,           \* what the last call of get_dict returned
  asked,         \* the last call requested the dictionary metadata
  fetched,       \* the last call requested the dictionary payload
  reply,         \* what the two servers answered to the last call
  counter,       \* CheckIP._counter
  invocations,   \* number of calls of CheckIP.process so far
  checked,       \* the last call of CheckIP.process resolved the hostnames
  ip_set,        \* CheckIP.process: the addresses the last check collected
  ip_raised,     \* the last call of CheckIP.process raised
  ip_before,     \* the call of CheckIP.process before the last one raised
  skips,         \* length of the latest run of calls that did not check
  mv_item,       \* the item of the current/last call of MoveFiles.process
  mv_state,      \* that call: "idle", "running", "returned" or "raised"
  mv_pos,        \* MoveFiles.process: index of the statement to execute next
  item_name,     \* item['item_name'] of that call
  warc_moved,    \* the .warc.zst of the item is in data_dir
  txt_moved,     \* the _data.txt of the item is in data_dir
  item_dir,      \* the directory item_dir of the item exists
  posted,        \* the body of the POST request of that call, or None
  status,        \* r.status_code of that request, or 0
  completions    \* calls of ChooseTargetAndUpload.complete_item per item

upvars == <<concurrency, working, queue, pc, running, timer, target, tries,
            ft_item, targets, pos, resp, probed, found, result, completions>>

movevars == <<mv_item, mv_state, mv_pos, item_name, warc_moved, txt_moved,
              item_dir, posted, status>>

dictvars == <<data, created, now, calls, at, ret, asked, fetched, reply>>

ipvars == <<counter, invocations, checked, ip_set, ip_raised, ip_before,
            skips>>

vars == <<upvars, dictvars, ipvars, movevars>>

Range(s) == {s[k] : k \in 1..Len(s)}

\* The positions in which an item holds ChooseTargetAndUpload:
\* started by start_item and not yet through complete_item.
Selecting == {"find_target", "probing"}
Active == Selecting \cup {"transferring", "retry"}

\* ------------------------------------------------------------ environment
\* The tracker's answer to upload_targets: a list of distinct targets.
RECURSIVE SortedSeq(_)
SortedSeq(S) ==
  IF S = {} THEN <<>>
  ELSE LET m == CHOOSE x \in S : \A y \in S : x <= y
       IN <<m>> \o SortedSeq(S \ {m})

TrackerLists == {SortedSeq(S) : S \in SUBSET Candidates}

\* random.shuffle(targets): any reordering of the list.
Shuffles(s) ==
  IF s = <<>> THEN {<<>>}
  ELSE {[k \in 1..Len(s) |-> s[p[k]]] : p \in Permutations(1..Len(s))}

\* A probe answers accepts=true, accepts=false, or raises (timeout, bad JSON).
Answers == {"accept", "reject", "raise"}

\* The value of ZstdDict.data before the first download (None).
NoRecord == [id |-> 0, dict |-> <<>>]

\* A call of get_dict that sent no request.
NoReply == [meta |-> "none", id |-> 0, sha |-> 0, dl |-> "none", payload |-> <<>>]

TypeOK ==
  /\ concurrency \in MinThreads..MaxThreadsConfig
  /\ working \in 0..NumItems
  /\ queue \in Seq(Items)
  /\ pc \in [Items -> {"finalize", "moving", "item_failed", "upstream",
                       "queued", "find_target", "probing", "transferring",
                       "retry", "complete", "failed", "done"}]
  /\ running \in Items \cup {NoItem}
  /\ timer \in [Items -> {NoTimer} \cup (0..retry_sleep)]
  /\ target \in [Items -> {None} \cup (Candidates \X {Downloader})]
  /\ found \in {None} \cup (Candidates \X {Downloader})
  /\ tries \in [Items -> 0..max_tries]
  /\ ft_item \in Items \cup {NoItem}
  /\ targets \in Seq(Candidates)
  /\ pos \in 0..(NumCandidates + 1)
  /\ probed \in Seq(Candidates)
  /\ result \in {"idle", "running", "raised", "none", "picked"}

InitAt(stage) ==
  /\ concurrency \in {MinThreads, DefaultThreads}
  /\ working = 0
  /\ queue = <<>>
  /\ pc = [i \in Items |-> stage]
  /\ running = NoItem
  /\ timer = [i \in Items |-> NoTimer]
  /\ target = [i \in Items |-> None]
  /\ tries = [i \in Items |-> 0]
  /\ ft_item = NoItem
  /\ targets = <<>>
  /\ pos = 0
  /\ resp = <<>>
  /\ probed = <<>>
  /\ found = None
  /\ result = "idle"
  /\ data = NoRecord
  /\ created = 0
  /\ now = 0
  /\ calls = 0
  /\ at = 0
  /\ ret = [raised |-> FALSE, value |-> NoRecord]
  /\ asked = FALSE
  /\ fetched = FALSE
  /\ reply = NoReply
  /\ counter = 0
  /\ invocations = 0
  /\ checked = FALSE
  /\ ip_set = {}
  /\ ip_raised = FALSE
  /\ ip_before = FALSE
  /\ skips = 0
  /\ mv_item = NoItem
  /\ mv_state = "idle"
  /\ mv_pos = 0
  /\ item_name = <<>>
  /\ warc_moved = FALSE
  /\ txt_moved = FALSE
  /\ item_dir = FALSE
  /\ posted = None
  /\ status = 0
  /\ completions = [i \in Items |-> 0]

\* Every item has left MoveFiles and stands before LimitConcurrent.
Init == InitAt("upstream")

\* ------------------------------------------------- LimitConcurrent (379-383)
\* Variant: a slot is given also when the limit is reached.
HasSlot_inclusive(w, c) == w <= c

\* LimitConcurrent.enqueue: a slot is free.
HasSlot(w, c) == w < c

\* Variant: the slot is not given back.
release_none(w) == w

\* LimitConcurrent hears that its inner task completed an item.
release(w) == w - 1

\* ------------------------------------------- ChooseTargetAndUpload (150-219)
\* Variant: a failed attempt fails the item.
on_failure_terminal == "failed"

\* Where a failed attempt leaves the item: retry() arms a timer.
on_failure == "retry"

\* retry(): IOLoop.add_timeout(timedelta(seconds=self.retry_sleep), process)
retry_delay == retry_sleep

\* Variant: retry() sleeps on the thread of the loop.
after_retry_blocking(i) == i

\* retry() returns at once, and with it the handler: the loop is free.
after_retry(i) == NoItem

\* Line 217: target.replace(':downloader', item['stats']['downloader'])
Substitute(c) == <<c, Downloader>>

Template(t) == t[1]

\* Variant: the assert is missing.
target_ok_unchecked(t) == TRUE

\* Line 163: assert target is not None
target_ok(t) == t # None

\* Variant: a refusal is an error.
on_answer_strict(a) ==
  CASE a = "accept" -> "pick"
    [] a = "reject" -> "abort"
    [] a = "raise"  -> "abort"

\* Variant: a probe that raises is skipped.
on_answer_lenient(a) ==
  CASE a = "accept" -> "pick"
    [] a = "reject" -> "next"
    [] a = "raise"  -> "next"

\* Variant: the test of 'accepts' is negated.
on_answer_inverted(a) ==
  CASE a = "accept" -> "next"
    [] a = "reject" -> "pick"
    [] a = "raise"  -> "abort"

\* find_target: the reaction to the answer of one probe.
\*   "pick" returns the target, "next" goes on with the loop, "abort" raises.
on_answer(a) ==
  CASE a = "accept" -> "pick"
    [] a = "reject" -> "next"
    [] a = "raise"  -> "abort"

\* process() has failed or the transfer has: retry(item).
Retry(i) ==
  /\ pc' = [pc EXCEPT ![i] = on_failure]
  /\ timer' = [timer EXCEPT ![i] = retry_delay]
  /\ running' = after_retry(i)
  /\ target' = [target EXCEPT ![i] = None]
  /\ tries' = [tries EXCEPT ![i] = 0]

\* Lines 167-186: the RsyncUpload for target t is built and enqueued, which
\* sets item["tries"] to 0 and starts the rsync process.
StartTransfer(i, t) ==
  /\ pc' = [pc EXCEPT ![i] = "transferring"]
  /\ target' = [target EXCEPT ![i] = t]
  /\ tries' = [tries EXCEPT ![i] = 0]
  /\ running' = NoItem
  /\ UNCHANGED timer

\* Lines 162-166: find_target has returned t to process().
Returned_to_process(i, t) ==
  IF target_ok(t) THEN StartTransfer(i, t) ELSE Retry(i)

\* The locals of a call of MoveFiles.process that has ended are gone with
\* the next step of the program.
MoveGone ==
  IF mv_state \in {"returned", "raised"}
  THEN /\ mv_item' = NoItem
       /\ mv_state' = "idle"
       /\ mv_pos' = 0
       /\ item_name' = <<>>
       /\ warc_moved' = FALSE
       /\ txt_moved' = FALSE
       /\ item_dir' = FALSE
       /\ posted' = None
       /\ status' = 0
  ELSE UNCHANGED movevars

\* enqueue()/process() of item i begins: find_target is entered.
BeginFrame(i) ==
  /\ ft_item' = i
  /\ targets' = <<>>
  /\ pos' = 0
  /\ resp' = <<>>
  /\ probed' = <<>>
  /\ found' = None
  /\ result' = "running"

\* The locals of find_target stay visible in the state its handler ends in
\* and are gone with the next step of the program.
EndFrame ==
  /\ ft_item' = NoItem
  /\ targets' = <<>>
  /\ pos' = 0
  /\ resp' = <<>>
  /\ probed' = <<>>
  /\ found' = None
  /\ result' = "idle"

\* The item leaves the previous stage and reaches LimitConcurrent.enqueue.
Arrive(i) ==
  /\ UNCHANGED <<dictvars, ipvars>>
  /\ MoveGone
  /\ running = NoItem
  /\ pc[i] = "upstream"
  /\ IF HasSlot(working, concurrency)
     THEN /\ working' = working + 1
          /\ pc' = [pc EXCEPT ![i] = "find_target"]
          /\ running' = i
          /\ BeginFrame(i)
          /\ UNCHANGED queue
     ELSE /\ queue' = Append(queue, i)
          /\ pc' = [pc EXCEPT ![i] = "queued"]
          /\ EndFrame
          /\ UNCHANGED <<working, running>>
  /\ UNCHANGED <<concurrency, timer, target, tries, completions>>

\* find_target, lines 196-200: the request to the tracker raises, or it
\* answers a list, which is shuffled.
RequestTargets(i) ==
  /\ UNCHANGED <<dictvars, ipvars>>
  /\ MoveGone
  /\ running = i
  /\ pc[i] = "find_target"
  /\ \/ /\ result' = "raised"
        /\ Retry(i)
        /\ UNCHANGED <<targets, pos, resp, probed>>
     \/ \E l \in TrackerLists : \E s \in Shuffles(l) :
          \E r \in [Range(s) -> Answers] :
            /\ targets' = s
            /\ resp' = r
            /\ pos' = 1
            /\ pc' = [pc EXCEPT ![i] = "probing"]
            /\ UNCHANGED <<result, probed, timer, running, target, tries>>
  /\ UNCHANGED <<concurrency, working, queue, ft_item, found, completions>>

\* find_target, lines 201-217: one pass of the loop body.
Probe(i) ==
  /\ UNCHANGED <<dictvars, ipvars>>
  /\ MoveGone
  /\ running = i
  /\ pc[i] = "probing"
  /\ pos <= Len(targets)
  /\ LET c == targets[pos]
         d == on_answer(resp[c])
     IN /\ probed' = Append(probed, c)
        /\ CASE d = "pick" ->
                  /\ result' = "picked"
                  /\ found' = Substitute(c)
                  /\ Returned_to_process(i, Substitute(c))
                  /\ UNCHANGED pos
             [] d = "next" ->
                  /\ pos' = pos + 1
                  /\ UNCHANGED <<result, found, target, tries, pc, running,
                                 timer>>
             [] d = "abort" ->
                  /\ result' = "raised"
                  /\ Retry(i)
                  /\ UNCHANGED <<pos, found>>
  /\ UNCHANGED <<concurrency, working, queue, ft_item, targets, resp,
                 completions>>

\* find_target, lines 218-219: the loop ran out and None is returned.
NoTarget(i) ==
  /\ UNCHANGED <<dictvars, ipvars>>
  /\ MoveGone
  /\ running = i
  /\ pc[i] = "probing"
  /\ pos > Len(targets)
  /\ result' = "none"
  /\ Returned_to_process(i, None)
  /\ UNCHANGED <<concurrency, working, queue, ft_item, targets, pos, resp,
                 probed, found, completions>>

\* The rsync process of item i ends with an accepted exit code:
\* on_complete_item -> complete_item(item), which LimitConcurrent hears;
\* it gives the slot to the head of its queue, whose enqueue() runs at once.
TransferOK(i) ==
  /\ UNCHANGED <<dictvars, ipvars>>
  /\ MoveGone
  /\ running = NoItem
  /\ pc[i] = "transferring"
  /\ target' = [target EXCEPT ![i] = None]
  /\ IF queue # <<>>
     THEN LET h == Head(queue)
          IN /\ queue' = Tail(queue)
             /\ working' = release(working) + 1
             /\ pc' = [pc EXCEPT ![i] = "complete", ![h] = "find_target"]
             /\ running' = h
             /\ BeginFrame(h)
     ELSE /\ working' = release(working)
          /\ pc' = [pc EXCEPT ![i] = "complete"]
          /\ EndFrame
          /\ UNCHANGED <<queue, running>>
  /\ tries' = [tries EXCEPT ![i] = 0]
  /\ completions' = [completions EXCEPT ![i] = @ + 1]
  /\ UNCHANGED <<concurrency, timer>>

\* The rsync process of item i ends with another exit code: item["tries"]
\* is counted up and, max_tries being reached, on_fail_item -> retry(item).
\* Nothing reads item["tries"] once the RsyncUpload has given up.
TransferFail(i) ==
  /\ UNCHANGED <<dictvars, ipvars>>
  /\ MoveGone
  /\ running = NoItem
  /\ pc[i] = "transferring"
  /\ IF tries[i] + 1 < max_tries
     THEN /\ tries' = [tries EXCEPT ![i] = @ + 1]
          /\ UNCHANGED <<pc, timer, running, target>>
     ELSE Retry(i)
  /\ EndFrame
  /\ UNCHANGED <<concurrency, working, queue, completions>>

\* Variant: the timeout is periodic and stays armed.
after_fire_rearmed == retry_sleep

\* IOLoop.add_timeout calls its callback once: no timeout is left.
after_fire == NoTimer

\* The timeout armed by retry() has expired: the loop calls process(item).
TimerFire(i) ==
  /\ UNCHANGED <<dictvars, ipvars>>
  /\ MoveGone
  /\ running = NoItem
  /\ pc[i] = "retry"
  /\ timer[i] = 0
  /\ timer' = [timer EXCEPT ![i] = after_fire]
  /\ pc' = [pc EXCEPT ![i] = "find_target"]
  /\ running' = i
  /\ BeginFrame(i)
  /\ UNCHANGED <<concurrency, working, queue, target, tries, completions>>

\* What is left of a timeout of t seconds after d more seconds.
Remaining(t, d) == IF t > d THEN t - d ELSE 0

\* TickLen seconds pass.
Tick ==
  /\ UNCHANGED <<dictvars, ipvars>>
  /\ MoveGone
  /\ \E i \in Items : timer[i] > 0
  /\ timer' = [i \in Items |->
                 IF timer[i] > 0 THEN Remaining(timer[i], TickLen) ELSE timer[i]]
  /\ IF running = NoItem
     THEN EndFrame
     ELSE UNCHANGED <<ft_item, targets, pos, resp, probed, found, result>>
  /\ UNCHANGED <<concurrency, working, queue, pc, running, target, tries,
                 completions>>

Next ==
  \/ \E i \in Items : Arrive(i)
  \/ \E i \in Items : RequestTargets(i)
  \/ \E i \in Items : Probe(i)
  \/ \E i \in Items : NoTarget(i)
  \/ \E i \in Items : TransferOK(i)
  \/ \E i \in Items : TransferFail(i)
  \/ \E i \in Items : TimerFire(i)
  \/ Tick

Spec == Init /\ [][Next]_vars

\* The event loop runs a handler to its end (the requests of find_target
\* return or raise), time passes, and every timeout that is due is called.
FindTargetStep ==
  \E i \in Items : RequestTargets(i) \/ Probe(i) \/ NoTarget(i)

FairSpec ==
  /\ Spec
  /\ WF_vars(Tick)
  /\ WF_vars(FindTargetStep)
  /\ \A i \in Items : SF_vars(TimerFire(i))

\* ----------------------------------------------------- MoveFiles (129-147)
\* An item name is a string, written as the sequence of its pieces; the
\* piece ":" is the colon, every other piece is free of colons.
Colon == ":"

ItemTypes == {"web", "wiki"}

\* Line 324: the values of item_config that WgetArgs lets through.
ItemConfigs == {"initial", "complete"}

\* item_value, which split(':', 2) of line 318 allows to hold colons.
ItemValues ==
  UNION {[1..n -> {"octocat/Hello-World", Colon}] : n \in 1..MaxValueLen}

ItemNames ==
  {<<t, Colon, c, Colon>> \o v :
     t \in ItemTypes, c \in ItemConfigs, v \in ItemValues}

\* item['start_time'], set by PrepareDirectories (line 126).
start_time == "start_time"

\* str.split(':'): the fields between the colons.
RECURSIVE Split(_)
Split(str) ==
  IF \A k \in 1..Len(str) : str[k] # Colon THEN <<str>>
  ELSE LET k == CHOOSE j \in 1..Len(str) :
                  str[j] = Colon /\ \A h \in 1..(j - 1) : str[h] # Colon
       IN <<SubSeq(str, 1, k - 1)>> \o Split(SubSeq(str, k + 1, Len(str)))

\* ':'.join(fields)
RECURSIVE Join(_)
Join(fields) ==
  IF fields = <<>> THEN <<>>
  ELSE IF Len(fields) = 1 THEN fields[1]
  ELSE fields[1] \o <<Colon>> \o Join(Tail(fields))

\* Lines 140-141.
NewItem(name) ==
  LET fields == Split(name)
  IN Join(<<<<"web">>, <<start_time>>>> \o SubSeq(fields, 3, Len(fields)))

\* What the queue endpoint answers.
StatusCodes == {HTTP_OK, 503}

\* Variant: the directory is removed before the second rename.
Program_rmtree_early ==
  <<"rename_warc", "rmtree", "rename_data", "post", "assert">>

\* The statements of MoveFiles.process, lines 134-147.
Program == <<"rename_warc", "rename_data", "rmtree", "post", "assert">>

AtStatement(i, st) ==
  /\ running = i
  /\ pc[i] = "moving"
  /\ mv_state = "running"
  /\ mv_pos <= Len(Program)
  /\ Program[mv_pos] = st

\* Variant: the exception is swallowed and the item goes on.
on_raise_ignored == "upstream"

\* SimpleTask.enqueue: process() raised, fail_item(item) ends the item.
on_raise == "item_failed"

\* An exception leaves process().
MoveRaise(i) ==
  /\ mv_state' = "raised"
  /\ pc' = [pc EXCEPT ![i] = on_raise]
  /\ running' = NoItem
  /\ UNCHANGED mv_pos

MoveOn ==
  /\ mv_pos' = mv_pos + 1
  /\ UNCHANGED <<mv_state, pc, running>>

MoveFrame ==
  UNCHANGED <<dictvars, ipvars, concurrency, working, queue, timer, target,
              tries, ft_item, targets, pos, resp, probed, found, result,
              completions, mv_item, item_name>>

\* SimpleTask.enqueue of MoveFiles: process(item) is entered.
MoveFilesBegin(i) ==
  /\ UNCHANGED <<dictvars, ipvars>>
  /\ running = NoItem
  /\ pc[i] = "finalize"
  /\ pc' = [pc EXCEPT ![i] = "moving"]
  /\ running' = i
  /\ mv_item' = i
  /\ mv_state' = "running"
  /\ mv_pos' = 1
  /\ item_name' \in ItemNames
  /\ warc_moved' = FALSE
  /\ txt_moved' = FALSE
  /\ item_dir' = TRUE
  /\ posted' = None
  /\ status' = 0
  /\ EndFrame
  /\ UNCHANGED <<concurrency, working, queue, timer, target, tries,
                 completions>>

\* Lines 134-135: os.rename of the .warc.zst, or OSError.
RenameWarc(i) ==
  /\ AtStatement(i, "rename_warc")
  /\ MoveFrame
  /\ \/ item_dir /\ warc_moved' = TRUE /\ MoveOn
     \/ MoveRaise(i) /\ UNCHANGED warc_moved
  /\ UNCHANGED <<txt_moved, item_dir, posted, status>>

\* Lines 136-137: os.rename of the _data.txt, or OSError.
RenameData(i) ==
  /\ AtStatement(i, "rename_data")
  /\ MoveFrame
  /\ \/ item_dir /\ txt_moved' = TRUE /\ MoveOn
     \/ MoveRaise(i) /\ UNCHANGED txt_moved
  /\ UNCHANGED <<warc_moved, item_dir, posted, status>>

\* Line 138: shutil.rmtree(item_dir), or OSError.
Rmtree(i) ==
  /\ AtStatement(i, "rmtree")
  /\ MoveFrame
  /\ \/ item_dir /\ item_dir' = FALSE /\ MoveOn
     \/ MoveRaise(i) /\ UNCHANGED item_dir
  /\ UNCHANGED <<warc_moved, txt_moved, posted, status>>

\* Lines 140-146: the new item is posted; the endpoint answers with a
\* status, or the request raises without having been answered.
Post(i) ==
  /\ AtStatement(i, "post")
  /\ MoveFrame
  /\ \/ \E code \in StatusCodes :
          /\ posted' = NewItem(item_name)
          /\ status' = code
          /\ MoveOn
     \/ MoveRaise(i) /\ UNCHANGED <<posted, status>>
  /\ UNCHANGED <<warc_moved, txt_moved, item_dir>>

\* Line 147: assert r.status_code == 200.
AssertStatus(i) ==
  /\ AtStatement(i, "assert")
  /\ MoveFrame
  /\ IF status = HTTP_OK THEN MoveOn ELSE MoveRaise(i)
  /\ UNCHANGED <<warc_moved, txt_moved, item_dir, posted, status>>

\* process() returns: complete_item(item) hands the item to the next task.
MoveFilesReturn(i) ==
  /\ running = i
  /\ pc[i] = "moving"
  /\ mv_state = "running"
  /\ mv_pos > Len(Program)
  /\ MoveFrame
  /\ mv_state' = "returned"
  /\ pc' = [pc EXCEPT ![i] = "upstream"]
  /\ running' = NoItem
  /\ UNCHANGED <<mv_pos, warc_moved, txt_moved, item_dir, posted, status>>

\* SendDoneToTracker (384-387) reports an item that the upload completed.
SendDone(i) ==
  /\ UNCHANGED <<dictvars, ipvars>>
  /\ MoveGone
  /\ running = NoItem
  /\ pc[i] = "complete"
  /\ pc' = [pc EXCEPT ![i] = "done"]
  /\ EndFrame
  /\ UNCHANGED <<concurrency, working, queue, running, timer, target, tries,
                 completions>>

NextPipe ==
  \/ Next
  \/ \E i \in Items : MoveFilesBegin(i)
  \/ \E i \in Items : RenameWarc(i)
  \/ \E i \in Items : RenameData(i)
  \/ \E i \in Items : Rmtree(i)
  \/ \E i \in Items : Post(i)
  \/ \E i \in Items : AssertStatus(i)
  \/ \E i \in Items : MoveFilesReturn(i)
  \/ \E i \in Items : SendDone(i)

\* Every item stands before MoveFiles.
InitPipe == InitAt("finalize")

SpecPipe == InitPipe /\ [][NextPipe]_vars

\* ------------------------------------------------------ ZstdDict (241-273)
DictIds == 1..NumDictIds

\* The magic number of a zstandard frame, b'\x28\xB5\x2F\xFD'.
ZstdMagic == <<40, 181, 47, 253>>

\* What the dictionary url can serve: plain bytes, a zstandard frame around
\* some bytes, or a frame that is cut off after its magic number.
Payloads ==
  {<<b>> : b \in 1..NumBodies}
    \cup {ZstdMagic \o <<b>> : b \in 1..NumBodies}
    \cup {ZstdMagic}

\* hashlib.sha256(raw_data).hexdigest(), as a position-weighted checksum.
RECURSIVE WeightedSum(_, _)
WeightedSum(raw, k) ==
  IF k = 0 THEN 0 ELSE raw[k] * k + WeightedSum(raw, k - 1)

Sha256(raw) == WeightedSum(raw, Len(raw)) % 251

Digests == {Sha256(p) : p \in Payloads}

\* raw_data[:4] == b'\x28\xB5\x2F\xFD'
HasMagic(raw) == Len(raw) >= 4 /\ SubSeq(raw, 1, 4) = ZstdMagic

\* ZstdDecompressor().decompress raises on a frame without content.
CanDecompress(raw) == Len(raw) > 4

\* ZstdDecompressor().decompress(raw_data): the content of the frame.
Decompress(raw) == SubSeq(raw, 5, Len(raw))

\* Variant: a third of the time to live.
IsFresh_short(d, c, t) == d # NoRecord /\ t - c < dict_ttl \div 3

\* Line 247: the cached record may be served.
IsFresh(d, c, t) == d # NoRecord /\ t - c < dict_ttl

\* Variant: the remote dictionary is always taken to be a new one.
SameId_never(d, id) == FALSE

\* Line 257: the remote dictionary is the cached one.
SameId(d, id) == d # NoRecord /\ id = d.id

Raised == [raised |-> TRUE, value |-> NoRecord]

Returned(d) == [raised |-> FALSE, value |-> d]

\* Variant: the payload is cached without comparing its digest.
DigestOK_unchecked(raw, sha) == TRUE

\* Line 264: the digest of the downloaded bytes is the advertised one.
DigestOK(raw, sha) == Sha256(raw) = sha

\* Lines 266-267: the bytes that are cached for a payload.
Unpacked(raw) == IF HasMagic(raw) THEN Decompress(raw) ELSE raw

\* One call of ZstdDict.get_dict().
GetDict ==
  /\ UNCHANGED <<upvars, ipvars, movevars>>
  /\ calls < MaxCalls
  /\ calls' = calls + 1
  /\ at' = now
  /\ UNCHANGED now
  /\ IF IsFresh(data, created, now)
     THEN /\ ret' = Returned(data)
          /\ asked' = FALSE
          /\ fetched' = FALSE
          /\ reply' = NoReply
          /\ UNCHANGED <<data, created>>
     ELSE /\ asked' = TRUE
          /\ \/ \* the metadata request fails: raise_for_status() or json() raises
                /\ ret' = Raised
                /\ fetched' = FALSE
                /\ reply' = [NoReply EXCEPT !.meta = "error"]
                /\ UNCHANGED <<data, created>>
             \/ \E id \in DictIds, sha \in Digests :
                  LET meta == [NoReply EXCEPT !.meta = "ok", !.id = id, !.sha = sha]
                  IN IF SameId(data, id)
                     THEN /\ created' = now
                          /\ ret' = Returned(data)
                          /\ fetched' = FALSE
                          /\ reply' = meta
                          /\ UNCHANGED data
                     ELSE /\ fetched' = TRUE
                          /\ \/ \* the payload request fails: raise_for_status()
                                /\ reply' = [meta EXCEPT !.dl = "error"]
                                /\ ret' = Raised
                                /\ UNCHANGED <<data, created>>
                             \/ \E payload \in Payloads :
                                  /\ reply' = [meta EXCEPT !.dl = "ok",
                                                          !.payload = payload]
                                  /\ IF \/ ~DigestOK(payload, sha)
                                        \/ HasMagic(payload) /\ ~CanDecompress(payload)
                                     THEN /\ ret' = Raised
                                          /\ UNCHANGED <<data, created>>
                                     ELSE LET rec == [id |-> id, dict |-> Unpacked(payload)]
                                          IN /\ data' = rec
                                             /\ created' = now
                                             /\ ret' = Returned(rec)

\* Time passes between two calls of get_dict.
TimeSteps == {600, 1799}

Advance ==
  /\ UNCHANGED <<upvars, ipvars, movevars>>
  /\ \E d \in TimeSteps :
       /\ now + d <= MaxNow
       /\ now' = now + d
  /\ UNCHANGED <<data, created, calls, at, ret, asked, fetched, reply>>

NextDict ==
  \/ GetDict
  \/ Advance

\* The cache at import of the module, with the limiter at its default.
InitDict == Init /\ concurrency = DefaultThreads

SpecDict == InitDict /\ [][NextDict]_vars

\* -------------------------------------------------------- CheckIP (65-95)
\* The addresses socket.gethostbyname can return.
Addrs == 1..NumAddrs

\* What ip_set can hold after the lookups: one address per hostname looked
\* up, equal addresses counted once.
Resolutions(hosts) == {S \in SUBSET Addrs : S # {} /\ Cardinality(S) <= hosts}

\* Variant: five distinct addresses are enough.
CheckPasses_five(S) == Cardinality(S) >= NumHosts - 1

\* Line 84: the check passes.
CheckPasses(S) == Cardinality(S) = NumHosts

\* Variant: a check that fails restarts the countdown.
after_raise_reset(c) == check_interval

\* Lines 88-89: the exception leaves process() before line 92.
after_raise(c) == c

\* Lines 92-95.
Countdown(c) == IF c <= 0 THEN check_interval ELSE c - 1

\* One call of CheckIP.process(item).
CheckIPProcess ==
  /\ UNCHANGED <<upvars, dictvars, movevars>>
  /\ invocations < MaxInvocations
  /\ invocations' = invocations + 1
  /\ ip_before' = ip_raised
  /\ IF counter <= 0
     THEN /\ checked' = TRUE
          /\ skips' = skips
          /\ \/ \* all six lookups return an address
                \E S \in Resolutions(NumHosts) :
                  /\ ip_set' = S
                  /\ IF CheckPasses(S)
                     THEN /\ ip_raised' = FALSE
                          /\ counter' = Countdown(counter)
                     ELSE /\ ip_raised' = TRUE
                          /\ counter' = after_raise(counter)
             \/ \* gethostbyname raises for one of the hostnames
                \E S \in Resolutions(NumHosts - 1) \cup {{}} :
                  /\ ip_set' = S
                  /\ ip_raised' = TRUE
                  /\ counter' = after_raise(counter)
     ELSE /\ checked' = FALSE
          /\ skips' = IF checked THEN 1 ELSE skips + 1
          /\ ip_set' = {}
          /\ ip_raised' = FALSE
          /\ counter' = Countdown(counter)

NextIP == CheckIPProcess

\* The task as constructed, with the limiter at its default.
InitIP == Init /\ concurrency = DefaultThreads

SpecIP == InitIP /\ [][NextIP]_vars
\* ================================================================ claims
InStage == {i \in Items : pc[i] \in Active}

\* The list of the current call has been received, and:
\* exactly one listed candidate accepts and the others answer accepts=false.
OneAcceptor ==
  /\ pos >= 1
  /\ Cardinality({c \in Range(targets) : resp[c] = "accept"}) = 1
  /\ \A c \in Range(targets) : resp[c] # "raise"

\* no listed candidate accepts and none raises (the list may be empty).
NoAcceptor ==
  /\ pos >= 1
  /\ \A c \in Range(targets) : resp[c] = "reject"

\* ------------------------------------------------------------------- C1
\* The step is one in which time passes: every running timeout runs down.
TickPassed ==
  /\ pc' = pc
  /\ \A j \in Items :
       timer[j] > 0 => (timer'[j] < timer[j] /\ timer'[j] >= 0)

C1_Step(i) ==
  /\ pc'[i] \in {"upstream", "queued", "find_target", "probing",
                 "transferring", "retry", "complete"}
  /\ (ft_item = i /\ result = "running" /\ result' \in {"raised", "none"})
       => (pc'[i] = "retry" /\ timer'[i] = 10)
  /\ (pc[i] = "transferring" /\ pc'[i] # "transferring")
       => /\ pc'[i] \in {"retry", "complete"}
          /\ pc'[i] = "retry" => timer'[i] = 10
  /\ (pc[i] = "retry" /\ pc'[i] # "retry")
       => (timer[i] = 0 /\ pc'[i] = "find_target")
  /\ (pc[i] = "retry" /\ pc'[i] = "retry")
       => (timer'[i] <= timer[i] /\ (timer'[i] < timer[i] => TickPassed))
  /\ (pc'[i] = "complete" /\ pc[i] # "complete")
       => pc[i] = "transferring"

\* C1: an item in ChooseTargetAndUpload has no terminal failure state: a
\* failed discovery, probe or transfer puts it in the retry state with a
\* timeout of 10; it leaves the retry state only for target selection and
\* only when the 10 have run down, which eventually happens; it becomes
\* complete only by a transfer that succeeded.
C1_NoTerminalFailure ==
  /\ [][\A i \in Items : C1_Step(i)]_vars
  /\ \A i \in Items : (pc[i] = "retry") ~> (pc[i] = "find_target")

C1_Witness ==
  \E i \in Items :
    /\ pc[i] = "retry"
    /\ timer[i] = 0
    /\ ENABLED TimerFire(i)

\* ------------------------------------------------------------------- C2
C2_Inv ==
  OneAcceptor =>
    /\ result \in {"running", "picked"}
    /\ result = "picked" => resp[Template(found)] = "accept"

\* C2: when exactly one candidate of the list accepts (and the others answer
\* accepts=false), find_target ends by returning that candidate, for every
\* order of the shuffled list.
C2_AcceptorSelected ==
  /\ []C2_Inv
  /\ (OneAcceptor /\ result = "running")
       ~> (OneAcceptor /\ result = "picked"
             /\ resp[Template(found)] = "accept")

C2_Witness ==
  /\ OneAcceptor
  /\ result = "picked"
  /\ Len(targets) >= 2
  /\ Template(found) = targets[Len(targets)]
  /\ targets[1] > targets[Len(targets)]

\* ------------------------------------------------------------------- C3
C3_Inv ==
  NoAcceptor =>
    /\ result \in {"running", "none"}
    /\ found = None
    /\ target[ft_item] = None
    /\ pc[ft_item] \in {"probing", "retry"}
    /\ result = "none" => pc[ft_item] = "retry"

C3_Step ==
  (NoAcceptor /\ result = "running" /\ result' # "running")
    => /\ result' = "none"
       /\ pc'[ft_item] = "retry"
       /\ timer'[ft_item] = 10
       /\ working' = working

\* C3: an attempt in which no candidate accepts, the list being empty or
\* not, starts no transfer and does not complete the item: it ends in the
\* retry state with a timeout of 10, and the item keeps its slot.
C3_NoAcceptorRetries == []C3_Inv /\ [][C3_Step]_vars

C3_Witness ==
  /\ NoAcceptor
  /\ targets = <<>>
  /\ result = "none"
  /\ pc[ft_item] = "retry"
  /\ timer[ft_item] = 10

\* ------------------------------------------------------------------- C4
\* C4: a probe that raised is the last probe of its attempt: the attempt
\* ended by raising, no target was selected, and the item is in the retry
\* state, whatever the candidates after it would have answered.
C4_ProbeErrorAborts ==
  \A k \in 1..Len(probed) :
    resp[probed[k]] = "raise" =>
      /\ k = Len(probed)
      /\ result = "raised"
      /\ found = None
      /\ target[ft_item] = None
      /\ pc[ft_item] = "retry"
      /\ timer[ft_item] \in 0..10

C4_Witness ==
  /\ result = "raised"
  /\ Len(probed) >= 1
  /\ Len(probed) < Len(targets)
  /\ resp[targets[Len(probed) + 1]] = "accept"

\* ------------------------------------------------------------------- C5
C5_Inv ==
  /\ Len(probed) <= Len(targets)
  /\ probed = SubSeq(targets, 1, Len(probed))
  /\ \A k \in 1..(Len(probed) - 1) : resp[probed[k]] = "reject"
  /\ (result = "running" /\ pos >= 1) => pos = Len(probed) + 1
  /\ found # None =>
       /\ Len(probed) >= 1
       /\ Template(found) = probed[Len(probed)]
       /\ resp[Template(found)] = "accept"

C5_Step ==
  (Len(probed') = Len(probed) + 1 /\ resp[targets[pos]] = "reject")
    => /\ pos' = pos + 1
       /\ result' = "running"
       /\ pc' = pc
       /\ running' = running
       /\ timer' = timer

\* C5: the candidates are probed in the order of the shuffled list; after a
\* candidate that answered accepts=false the loop goes on at once, with no
\* timeout armed; the target returned is the first candidate of the list
\* that accepted, and it is the last one probed.
C5_FirstAcceptorInOrder == []C5_Inv /\ [][C5_Step]_vars

C5_Witness ==
  /\ result = "picked"
  /\ Len(targets) >= 2
  /\ Len(probed) = 2
  /\ resp[probed[1]] = "reject"
  /\ Template(found) = targets[2]

\* ------------------------------------------------------------------- C6
C6_Step(i) ==
  /\ (pc[i] = "transferring" /\ pc'[i] = "transferring")
       => (tries'[i] = tries[i] /\ target'[i] = target[i])
  /\ (pc[i] = "transferring" /\ pc'[i] # "transferring")
       => (pc'[i] \in {"retry", "complete"} /\ target'[i] = None)
  /\ (pc'[i] = "transferring" /\ pc[i] # "transferring")
       => /\ pc[i] = "probing"
          /\ ft_item = i
          /\ result' = "picked"
          /\ target'[i] = found'
          /\ tries'[i] = 0
  /\ (pc[i] = "retry" /\ pc'[i] # "retry") => pc'[i] = "find_target"

\* C6: a transfer is started only by a selection that has just picked its
\* target, and a transfer that fails is not started again: the item goes to
\* the retry state, from which it can only go through find_target again.
C6_OneTransferPerSelection ==
  /\ [](\A i \in Items : pc[i] = "transferring" => tries[i] = 0)
  /\ [][\A i \in Items : C6_Step(i)]_vars

C6_Witness ==
  \E i \in Items :
    /\ pc[i] = "transferring"
    /\ ft_item = i
    /\ result = "picked"
    /\ tries[i] = 0
    /\ \E j \in Items : j # i /\ pc[j] = "retry" /\ timer[j] < 10

\* ------------------------------------------------------------------- C7
C7_Step(i) ==
  (pc[i] = "transferring" /\ pc'[i] = "complete")
    => /\ target'[i] = None
       /\ IF queue # <<>>
          THEN /\ pc'[Head(queue)] = "find_target"
               /\ running' = Head(queue)
               /\ queue' = Tail(queue)
               /\ working' = working
          ELSE /\ working' = working - 1
               /\ working' < concurrency

\* C7: a transfer that succeeds makes the item complete and gives its slot
\* back: the first item waiting at the limiter starts its upload in the same
\* step, and with nobody waiting the count of used slots goes down by one.
C7_SuccessReleasesSlot ==
  /\ [](working = Cardinality(InStage))
  /\ [][\A i \in Items : C7_Step(i)]_vars

C7_Witness ==
  \E i, j \in Items :
    /\ pc[i] = "complete"
    /\ pc[j] = "find_target"
    /\ running = j
    /\ working = concurrency
    /\ \A k \in Items : pc[k] # "upstream"
    /\ \A k \in Items \ {i, j} : pc[k] \in {"queued", "transferring"}

\* ------------------------------------------------------------------- C8
\* C8: the items that have entered ChooseTargetAndUpload and not completed
\* it are never more than the configured maximum, which lies in 1..20.
C8_BoundedUploads ==
  /\ concurrency \in 1..20
  /\ Cardinality(InStage) <= concurrency

C8_Witness ==
  /\ Cardinality(InStage) = concurrency
  /\ queue # <<>>

\* ------------------------------------------------------------------- C9
\* C9: an item that waits for its retry does not occupy the event loop:
\* unless another handler is running, another item can arrive at the
\* limiter, end its transfer or start its own retry, and a handler that is
\* running can take its next step.
C9_RetryDoesNotBlock ==
  \A i \in Items :
    pc[i] = "retry" =>
      /\ running # i
      /\ \A j \in Items \ {i} :
           /\ (running \notin Items \ {i} /\ pc[j] = "upstream")
                => ENABLED Arrive(j)
           /\ (running \notin Items \ {i} /\ pc[j] = "transferring")
                => ENABLED TransferOK(j)
           /\ (running \notin Items \ {i} /\ pc[j] = "retry" /\ timer[j] = 0)
                => ENABLED TimerFire(j)
           /\ (running = j /\ pc[j] = "find_target")
                => ENABLED RequestTargets(j)

C9_Witness ==
  \E i, j \in Items :
    /\ pc[i] = "retry"
    /\ timer[i] \in 1..9
    /\ j # i
    /\ running = j
    /\ pc[j] = "probing"
    /\ pos = 2

\* ------------------------------------------------------------------ C10
C10_Step ==
  (calls' = calls + 1 /\ data # NoRecord /\ now - created < 1800)
    => /\ ret' = [raised |-> FALSE, value |-> data]
       /\ data' = data
       /\ created' = created
       /\ asked' = FALSE
       /\ fetched' = FALSE
       /\ (calls > 0 /\ ~ret.raised) => ret'.value = ret.value

\* C10: a call of get_dict with a cached record younger than 1800 seconds
\* returns that record, requests neither the metadata nor the payload, and
\* leaves the record and its timestamp as they are; it returns the same
\* record as the call before it, if that one returned a record.
C10_FreshCacheIsServed == [][C10_Step]_vars

C10_Witness ==
  /\ calls >= 2
  /\ ~asked
  /\ ~ret.raised
  /\ ret.value = data
  /\ data # NoRecord
  /\ at = now
  /\ now - created = 1799

\* ------------------------------------------------------------------- C11
\* C11: a call of get_dict on an expired cached record, to which the metadata
\* endpoint reports the id of the cached record, requests no payload, sets
\* the cache timestamp to the time of the call, leaves the cached id and
\* bytes as they were and returns the cached record.
C11_Step ==
  (/\ calls' = calls + 1
   /\ data # NoRecord
   /\ now - created >= dict_ttl
   /\ reply'.meta = "ok"
   /\ reply'.id = data.id)
    => /\ fetched' = FALSE
       /\ reply'.dl = "none"
       /\ data' = data
       /\ created' = now
       /\ ret' = Returned(data)

C11_SameIdRefreshesOnly == [][C11_Step]_vars

\* An expired record was refreshed by a call that found the same id.
C11_Witness ==
  /\ calls >= 2
  /\ data # NoRecord
  /\ asked
  /\ reply.meta = "ok"
  /\ reply.id = data.id
  /\ ~fetched
  /\ at >= dict_ttl
  /\ created = at
  /\ ret = Returned(data)

\* ------------------------------------------------------------------- C12
\* C12: the cached bytes always come from a payload whose digest was the one
\* advertised for it: the cache changes only in a call that downloaded a
\* payload with the advertised digest, and then holds the advertised id and
\* the unpacked payload. A call to which the metadata or the payload request
\* answers with an error, or whose payload has another digest than the
\* advertised one, raises, returns no record, and leaves the cached record
\* and the cache timestamp as they were; so does every call that raises.
C12_Failed(r) ==
  \/ r.meta = "error"
  \/ r.dl = "error"
  \/ r.dl = "ok" /\ Sha256(r.payload) # r.sha

C12_Step ==
  calls' = calls + 1 =>
    /\ C12_Failed(reply') => ret' = Raised
    /\ ret'.raised =>
         /\ ret'.value = NoRecord
         /\ data' = data
         /\ created' = created
    /\ data' # data =>
         /\ reply'.dl = "ok"
         /\ Sha256(reply'.payload) = reply'.sha
         /\ data' = [id |-> reply'.id, dict |-> Unpacked(reply'.payload)]
         /\ ret' = Returned(data')

C12_OnlyVerifiedPayloadIsCached == [][C12_Step]_vars

\* A record is cached, and a later call got a payload with a wrong digest.
C12_Witness ==
  /\ data # NoRecord
  /\ reply.dl = "ok"
  /\ Sha256(reply.payload) # reply.sha
  /\ ret = Raised
  /\ created < at

\* ------------------------------------------------------------------- C13
\* C13: the first call of CheckIP.process resolves the hostnames; after a
\* call whose check passed the next 10 calls do not check, and the 11th
\* call after it checks again.
C13_Step ==
  invocations' = invocations + 1 =>
    /\ invocations = 0 => checked'
    /\ (checked /\ ~ip_raised) => ~checked'
    /\ (invocations > 0 /\ ~checked) => (checked' <=> skips = 10)

C13_ChecksEveryEleventh == [][C13_Step]_vars

\* The first call passed its check, ten calls skipped, the twelfth checks.
C13_Witness ==
  /\ invocations = 12
  /\ checked
  /\ skips = 10

\* ------------------------------------------------------------------- C14
\* C14: a call of CheckIP.process that performs the check raises when the
\* lookups gave fewer than six distinct addresses and returns without an
\* exception when they gave six distinct addresses.
C14_Step ==
  (invocations' = invocations + 1 /\ checked') =>
    /\ Cardinality(ip_set') < 6 => ip_raised'
    /\ Cardinality(ip_set') = 6 => ~ip_raised'

C14_CheckRaisesOnSharedAddress == [][C14_Step]_vars

\* A check that found two hostnames behind one address.
C14_Witness ==
  /\ checked
  /\ Cardinality(ip_set) = 5
  /\ ip_raised

\* ------------------------------------------------------------------- C20
\* C20: a call of CheckIP.process that raises leaves _counter as it was, the
\* call after it performs the check again, and _counter is always in 0..10.
C20_Step ==
  invocations' = invocations + 1 =>
    /\ ip_raised' => counter' = counter
    /\ ip_raised => checked'

C20_FailedCheckKeepsCounter == [](counter \in 0..10) /\ [][C20_Step]_vars

\* A check failed, and the call after it checked again and passed.
C20_Witness ==
  /\ ip_before
  /\ checked
  /\ ~ip_raised
  /\ counter = 10

\* ------------------------------------------------------------------- C15
\* C15: for an item of type web, MoveFiles posts no follow-up item to the
\* downstream queue.
C15_WebItemPostsNothing ==
  (mv_state # "idle" /\ Split(item_name)[1] = <<"web">>) => posted = None

\* ------------------------------------------------------------------- C16
\* C16: in MoveFiles the directory item_dir is removed only when both the
\* .warc.zst and the _data.txt have been renamed into data_dir; when one of
\* the two renames fails, the directory is still there and nothing has
\* been posted to the downstream queue.
C16_DeleteAfterBothRenames ==
  mv_state # "idle" =>
    /\ ~item_dir => (warc_moved /\ txt_moved)
    /\ (mv_state = "raised" /\ ~(warc_moved /\ txt_moved)) =>
         (item_dir /\ posted = None /\ status = 0)

\* The first rename went through and the second one failed.
C16_Witness ==
  /\ mv_state = "raised"
  /\ warc_moved
  /\ ~txt_moved
  /\ item_dir
  /\ posted = None

\* ------------------------------------------------------------------- C17
\* C17: an item reaches the upload stage only from a call of
\* MoveFiles.process that returned, with both files renamed and the queue
\* having answered 200; an item whose call of MoveFiles.process raised has
\* failed and never moves again; and the tracker is told that an item is
\* done only when complete_item of the upload stage was called for it.
C17_Step(i) ==
  /\ pc[i] = "item_failed" => pc'[i] = "item_failed"
  /\ (mv_item = i /\ mv_state = "running" /\ mv_state' = "raised")
       => pc'[i] = "item_failed"
  /\ (pc'[i] \in Active \cup {"queued"} /\ pc[i] \notin Active \cup {"queued"})
       => pc[i] = "upstream"
  /\ (pc'[i] = "upstream" /\ pc[i] # "upstream")
       => /\ mv_item = i
          /\ mv_state' = "returned"
          /\ warc_moved /\ txt_moved /\ ~item_dir
          /\ status = 200
  /\ (pc'[i] = "done" /\ pc[i] # "done")
       => (pc[i] = "complete" /\ completions[i] = 1)

C17_StrictStageOrder == [][\A i \in Items : C17_Step(i)]_vars

\* One item failed in MoveFiles on the answer of the queue, and another
\* one went through the upload and was reported.
C17_Witness ==
  /\ mv_state = "raised"
  /\ status = 503
  /\ pc[mv_item] = "item_failed"
  /\ \E j \in Items : pc[j] = "done"

\* ------------------------------------------------------------------- C18
\* C18: for every item in ChooseTargetAndUpload at most one of a running
\* call of find_target, a pending retry timeout and a transfer in flight
\* exists at any moment; a call of process() for an item begins only when
\* no timeout and no transfer of that item is left; and complete_item is
\* called at most once per item.
C18_Attempt(i) == ft_item = i /\ result = "running"

C18_Outstanding(i) ==
  (IF C18_Attempt(i) THEN 1 ELSE 0)
    + (IF timer[i] # NoTimer THEN 1 ELSE 0)
    + (IF target[i] # None THEN 1 ELSE 0)

C18_Inv ==
  \A i \in Items :
    /\ C18_Outstanding(i) <= 1
    /\ pc[i] \in Selecting <=> (C18_Attempt(i) /\ running = i)
    /\ pc[i] = "retry" <=> timer[i] # NoTimer
    /\ pc[i] = "transferring" <=> target[i] # None
    /\ completions[i] <= 1

C18_Step(i) ==
  (C18_Attempt(i)' /\ ~C18_Attempt(i)) =>
    /\ pc[i] \in {"upstream", "queued", "retry"}
    /\ target[i] = None
    /\ timer'[i] = NoTimer
    /\ target'[i] = None

C18_OneOutstandingPerItem ==
  []C18_Inv /\ [][\A i \in Items : C18_Step(i)]_vars

\* One item has completed after a retry of the other one was armed.
C18_Witness ==
  \E i, j \in Items :
    /\ completions[i] = 1
    /\ timer[j] # NoTimer
    /\ timer[j] < retry_sleep

\* ------------------------------------------------------------------- C19
\* C19: an item that waits for its retry timeout is still counted in
\* _working of LimitConcurrent; _working goes down only in a step in which
\* an item completes; and while as many items as the configured maximum
\* wait for their retry, no other item starts its upload.
C19_Retrying == {i \in Items : pc[i] = "retry"}

C19_Waiting == {i \in Items : pc[i] \in {"upstream", "queued"}}

C19_Inv ==
  /\ Cardinality(C19_Retrying) <= working
  /\ working <= concurrency

C19_Step ==
  /\ working' < working =>
       \E i \in Items : pc[i] = "transferring" /\ pc'[i] = "complete"
  /\ Cardinality(C19_Retrying) = concurrency =>
       \A j \in C19_Waiting : pc'[j] \in {"upstream", "queued"}

C19_RetryKeepsSlot == []C19_Inv /\ [][C19_Step]_vars

\* The only slot is held by an item that waits for its retry, and another
\* item stands in the queue of the limiter.
C19_Witness ==
  /\ concurrency = 1
  /\ \E i, j \in Items :
       /\ pc[i] = "retry"
       /\ timer[i] < retry_sleep
       /\ pc[j] = "queued"
====
